---- MODULE Spec2Model ----
(***************************************************************************)
(* A model of chinook_explorer: ChinookLoader (io.py), which reads the CSV  *)
(* files of a directory, ChinookModel (modeling.py), the join and          *)
(* feature-engineering pipeline, and ChinookAnalyzer (analytics.py), the   *)
(* aggregation, RFM segmentation and text analysis engine.                 *)
(*                                                                         *)
(* A DataFrame is a record [cols, rows]: cols is the sequence of column    *)
(* names, rows a sequence of functions from the column names to values.    *)
(* Values are integers; Null (-1) stands for NaN / NaT / None, every key   *)
(* and every measure of a modelled table is positive.                      *)
(*                                                                         *)
(* pandas is modelled by what it does: a left merge keeps the left order,  *)
(* null-fills unmatched rows and suffixes colliding right-hand columns;    *)
(* groupby drops null keys and sorts the others; sum, max and nunique skip *)
(* nulls; qcut interpolates its quantile edges linearly, and with          *)
(* duplicates="drop" drops repeated edges instead of raising; head(n) with *)
(* a negative n drops the last -n rows; sort_values leaves ties in an      *)
(* unspecified order.  Measures are integers, so the quantile edges are    *)
(* exact.  Of the calendar columns of sales_line_items() only Month and    *)
(* Quarter are modelled.                                                   *)
(***************************************************************************)
EXTENDS Integers, Sequences, FiniteSets, TLC

VARIABLES
    tables,     \* ChinookModel.tables: table name -> DataFrame (the caller's dict, aliased)
    result,     \* what the latest ChinookModel method call returned or raised
    edits,      \* number of changes the caller made to the raw tables so far
    called,     \* whether a ChinookModel method was called before the latest call,
                \* since the caller's latest change
    caller_df,  \* the sales table the caller owns and hands to ChinookAnalyzer
    sales_df,   \* ChinookAnalyzer.sales_df, the analyzer's private copy
    phase,      \* "building": no analyzer yet; "ready": constructed; "rejected": __init__ raised
    aresult,    \* what the latest ChinookAnalyzer method call returned or raised
    caller_catalog, \* the catalog table the caller owns, or None
    catalog_df, \* ChinookAnalyzer.catalog_df, the analyzer's private copy, or None
    data_dir,   \* the directory ChinookLoader reads: whether it exists, and its files
    loader_tables, \* ChinookLoader.tables: table name -> DataFrame
    lresult     \* what the latest ChinookLoader method call returned or raised

vars == <<tables, result, edits, called, caller_df, sales_df, phase, aresult, caller_catalog, catalog_df,
         data_dir, loader_tables, lresult>>

modelVars == <<tables, result, edits, called>>
catalogVars == <<caller_catalog, catalog_df>>
loaderVars == <<data_dir, loader_tables, lresult>>
analyzerVars == <<caller_df, sales_df, phase, aresult, caller_catalog, catalog_df>>

\* Python's None, where a table is expected.
None == [none |-> TRUE]

Null == -1

\* Largest number of changes (a dropped table, an appended row) the caller
\* makes to the canonical raw tables before calling the model.
MaxEdits == 2

Keys == {1, 2}

Range(s) == {s[i] : i \in 1..Len(s)}

RECURSIVE Concat(_)
Concat(ss) == IF ss = <<>> THEN <<>> ELSE Head(ss) \o Concat(Tail(ss))

-----------------------------------------------------------------------------
(* The raw Chinook tables, reduced to their keys, their foreign keys and   *)
(* the columns sales_line_items() reads or projects.                       *)

InvoiceLineRow(id, inv, trk) ==
    [c \in {"InvoiceLineId", "InvoiceId", "TrackId", "UnitPrice", "Quantity"} |->
        CASE c = "InvoiceLineId" -> id
          [] c = "InvoiceId" -> inv
          [] c = "TrackId" -> trk
          [] c = "UnitPrice" -> 1
          [] c = "Quantity" -> trk]

InvoiceRow(inv, cust) ==
    [c \in {"InvoiceId", "CustomerId", "InvoiceDate"} |->
        CASE c = "InvoiceId" -> inv
          [] c = "CustomerId" -> cust
          [] c = "InvoiceDate" -> 30 + inv]

CustomerRow(cust, rep) ==
    [c \in {"CustomerId", "Country", "SupportRepId"} |->
        CASE c = "CustomerId" -> cust
          [] c = "Country" -> 40 + cust
          [] c = "SupportRepId" -> rep]

TrackRow(trk, fk) ==
    [c \in {"TrackId", "Name", "AlbumId", "GenreId", "MediaTypeId", "UnitPrice"} |->
        CASE c = "TrackId" -> trk
          [] c = "Name" -> 50 + trk
          [] c = "AlbumId" -> fk
          [] c = "GenreId" -> fk
          [] c = "MediaTypeId" -> fk
          [] c = "UnitPrice" -> 1]

AlbumRow(alb, art) ==
    [c \in {"AlbumId", "Title", "ArtistId"} |->
        CASE c = "AlbumId" -> alb
          [] c = "Title" -> 60 + alb
          [] c = "ArtistId" -> art]

NamedRow(keycol, k, base) ==
    [c \in {keycol, "Name"} |-> IF c = keycol THEN k ELSE base + k]

EmployeeRow(emp) ==
    [c \in {"EmployeeId", "LastName"} |-> IF c = "EmployeeId" THEN emp ELSE 90 + emp]

TableCols ==
    [t \in {"invoiceline", "invoice", "customer", "track", "album", "artist",
            "genre", "mediatype", "employee"} |->
        CASE t = "invoiceline" -> <<"InvoiceLineId", "InvoiceId", "TrackId", "UnitPrice", "Quantity">>
          [] t = "invoice" -> <<"InvoiceId", "CustomerId", "InvoiceDate">>
          [] t = "customer" -> <<"CustomerId", "Country", "SupportRepId">>
          [] t = "track" -> <<"TrackId", "Name", "AlbumId", "GenreId", "MediaTypeId", "UnitPrice">>
          [] t = "album" -> <<"AlbumId", "Title", "ArtistId">>
          [] t = "artist" -> <<"ArtistId", "Name">>
          [] t = "genre" -> <<"GenreId", "Name">>
          [] t = "mediatype" -> <<"MediaTypeId", "Name">>
          [] t = "employee" -> <<"EmployeeId", "LastName">>]

TableNames == DOMAIN TableCols

\* The rows a caller may append to table t that already holds n rows.
NewRows(t, n) ==
    CASE t = "invoiceline" -> {InvoiceLineRow(n + 1, i, k) : i \in Keys, k \in Keys}
      [] t = "invoice" -> {InvoiceRow(i, c) : i \in Keys, c \in Keys}
      [] t = "customer" -> {CustomerRow(c, r) : c \in Keys, r \in Keys}
      [] t = "track" -> {TrackRow(k, f) : k \in Keys, f \in Keys}
      [] t = "album" -> {AlbumRow(a, r) : a \in Keys, r \in Keys}
      [] t = "artist" -> {NamedRow("ArtistId", k, 70) : k \in Keys}
      [] t = "genre" -> {NamedRow("GenreId", k, 80) : k \in Keys}
      [] t = "mediatype" -> {NamedRow("MediaTypeId", k, 85) : k \in Keys}
      [] t = "employee" -> {EmployeeRow(k) : k \in Keys}

\* A one-row-per-table Chinook database: every foreign key matches.
BaseTables ==
    [t \in TableNames |->
        [cols |-> TableCols[t],
         rows |-> <<CHOOSE r \in NewRows(t, 0) : \A c \in DOMAIN r : c \in {"Name", "Title", "LastName", "Country", "InvoiceDate"} \/ r[c] = 1>>]]

-----------------------------------------------------------------------------
(* pandas.DataFrame.merge(right, on=..., how="left", suffixes=("", sfx))   *)

\* The name a right-hand column gets: suffixed when the left frame has it too.
MergedName(leftcols, c, sfx) == IF c \in Range(leftcols) THEN c \o sfx ELSE c

MergedCols(left, right, right_on, drop_key, sfx) ==
    LET rcols == SelectSeq(right.cols, LAMBDA c : ~(drop_key /\ c = right_on))
    IN left.cols \o [i \in 1..Len(rcols) |-> MergedName(left.cols, rcols[i], sfx)]

\* The right-hand column behind merged column c (c is not a left column).
RightSource(left, right, c, sfx) ==
    CHOOSE rc \in Range(right.cols) : MergedName(left.cols, rc, sfx) = c

\* The right-hand side of a left row that matches nothing: every column null.
NullRow(right) == [c \in Range(right.cols) |-> Null]

\* One output row: left row l joined with right row r.
JoinedRow(left, right, newcols, l, r, sfx) ==
    [c \in Range(newcols) |->
        IF c \in Range(left.cols) THEN l[c]
        ELSE r[RightSource(left, right, c, sfx)]]

\* The output rows for left row l with an inner join: one per matching right row.
InnerMatches(left, right, newcols, l, left_on, right_on, sfx) ==
    LET m == SelectSeq(right.rows, LAMBDA r : r[right_on] = l[left_on])
    IN [i \in 1..Len(m) |-> JoinedRow(left, right, newcols, l, m[i], sfx)]

\* The output rows for left row l: one per matching right row (a null key
\* matches a null key, as in pandas), one null-filled row when none matches.
LeftMatches(left, right, newcols, l, left_on, right_on, sfx) ==
    LET m == SelectSeq(right.rows, LAMBDA r : r[right_on] = l[left_on])
    IN IF m = <<>> THEN <<JoinedRow(left, right, newcols, l, NullRow(right), sfx)>>
       ELSE [i \in 1..Len(m) |-> JoinedRow(left, right, newcols, l, m[i], sfx)]

MergeOn(left, right, left_on, right_on, sfx) ==
    LET newcols == MergedCols(left, right, right_on, left_on = right_on, sfx)
    IN [cols |-> newcols,
        rows |-> Concat([i \in 1..Len(left.rows) |->
                    LeftMatches(left, right, newcols, left.rows[i], left_on, right_on, sfx)])]

Merge(left, right, on, sfx) == MergeOn(left, right, on, on, sfx)

\* df[new] = values, one value per row (a new column appended, or an old one
\* overwritten).
WithColumn(df, new, values) ==
    [cols |-> IF new \in Range(df.cols) THEN df.cols ELSE Append(df.cols, new),
     rows |-> [i \in 1..Len(df.rows) |->
                [c \in DOMAIN df.rows[i] \cup {new} |->
                    IF c = new THEN values[i] ELSE df.rows[i][c]]]]

\* df[[c for c in wanted if c in df.columns]]
Project(df, wanted) ==
    LET keep == SelectSeq(wanted, LAMBDA c : c \in Range(df.cols))
    IN [cols |-> keep,
        rows |-> [i \in 1..Len(df.rows) |-> [c \in Range(keep) |-> df.rows[i][c]]]]

\* A product of two cells; NaN propagates.
Times(a, b) == IF a = Null \/ b = Null THEN Null ELSE a * b

-----------------------------------------------------------------------------
(* ChinookModel                                                            *)

\* The frame of a call that returned none.
NoFrame == [cols |-> <<>>, rows |-> <<>>]

NoResult == [op |-> "none", status |-> "none", missing |-> <<>>, df |-> NoFrame]

Returned(op, df) == [op |-> op, status |-> "ok", missing |-> <<>>, df |-> df]

\* KeyError("Missing required tables: " + ", ".join(missing)): the message is
\* kept as the sequence of the names it joins.
Raised(op, missing) == [op |-> op, status |-> "KeyError", missing |-> missing, df |-> NoFrame]

\* missing = [t for t in required if t not in self.tables]
FirstMissingOnly(required) ==
    LET m == SelectSeq(required, LAMBDA t : t \notin DOMAIN tables)
    IN IF m = <<>> THEN <<>> ELSE <<Head(m)>>

MissingTables(required) == SelectSeq(required, LAMBDA t : t \notin DOMAIN tables)

SalesRequired ==
    <<"invoiceline", "invoice", "customer", "track", "album", "artist", "genre", "mediatype">>

important_cols ==
    <<"InvoiceLineId", "InvoiceId", "InvoiceDate", "CustomerId", "FirstName", "LastName",
      "Country", "City", "TrackId", "Name", "Title", "ArtistId", "Name_artist", "GenreId",
      "Name_genre", "MediaTypeId", "Name_media", "UnitPrice", "Quantity", "LineTotal",
      "Year", "Month", "Quarter", "Week", "DayOfWeek">>

\* Calendar month of a date given as the day of a non-leap year (1 = 1 January).
MonthOfDay(d) ==
    IF d = Null THEN Null
    ELSE IF d <= 31 THEN 1 ELSE IF d <= 59 THEN 2 ELSE IF d <= 90 THEN 3
    ELSE IF d <= 120 THEN 4 ELSE 5

QuarterOfDay(d) == IF d = Null THEN Null ELSE IF d <= 90 THEN 1 ELSE 2

\* The joins and the engineered columns of sales_line_items(), on tables that
\* are all present.
SalesFrame ==
    LET j1 == Merge(tables["invoiceline"], tables["invoice"], "InvoiceId", "_invoice")
        j2 == Merge(j1, tables["customer"], "CustomerId", "_customer")
        j3 == Merge(j2, tables["track"], "TrackId", "_track")
        j4 == Merge(j3, tables["album"], "AlbumId", "_album")
        j5 == Merge(j4, tables["artist"], "ArtistId", "_artist")
        j6 == Merge(j5, tables["genre"], "GenreId", "_genre")
        j7 == Merge(j6, tables["mediatype"], "MediaTypeId", "_media")
        f1 == WithColumn(j7, "LineTotal",
                    [i \in 1..Len(j7.rows) |-> Times(j7.rows[i]["UnitPrice"], j7.rows[i]["Quantity"])])
        f2 == WithColumn(f1, "Month",
                    [i \in 1..Len(f1.rows) |-> MonthOfDay(f1.rows[i]["InvoiceDate"])])
        f3 == WithColumn(f2, "Quarter",
                    [i \in 1..Len(f2.rows) |-> QuarterOfDay(f2.rows[i]["InvoiceDate"])])
    IN Project(f3, important_cols)

sales_line_items ==
    LET missing == MissingTables(SalesRequired)
    IN IF missing # <<>> THEN Raised("sales_line_items", missing)
       ELSE Returned("sales_line_items", SalesFrame)

CatalogRequired == <<"track", "album", "artist", "genre", "mediatype">>

\* Milliseconds is not among the modelled track columns, so no DurationMin is
\* added; the album merge's default suffixes rename nothing, as no column of
\* the album table is also a track column.
catalog ==
    LET missing == MissingTables(CatalogRequired)
    IN IF missing # <<>> THEN Raised("catalog", missing)
       ELSE LET c1 == Merge(tables["track"], tables["album"], "AlbumId", "_y")
                c2 == Merge(c1, tables["artist"], "ArtistId", "_artist")
                c3 == Merge(c2, tables["genre"], "GenreId", "_genre")
                c4 == Merge(c3, tables["mediatype"], "MediaTypeId", "_media")
            IN Returned("catalog", c4)

CustomersRequired == <<"customer", "employee">>

customers_dim ==
    LET missing == MissingTables(CustomersRequired)
    IN IF missing # <<>> THEN Raised("customers_dim", missing)
       ELSE LET customers == tables["customer"]
            IN Returned("customers_dim",
                   IF "employee" \in DOMAIN tables /\ "SupportRepId" \in Range(customers.cols)
                   THEN MergeOn(customers, tables["employee"], "SupportRepId", "EmployeeId", "_rep")
                   ELSE customers)

-----------------------------------------------------------------------------
(* Actions of the model: the caller's changes to the raw tables, and the   *)
(* calls.                                                                  *)

\* A call that writes its derived LineTotal column into the raw invoiceline
\* table.
RawWrittenBy(op) ==
    IF op = "sales_line_items" /\ "invoiceline" \in DOMAIN tables
    THEN LET lines == tables["invoiceline"]
         IN [tables EXCEPT !["invoiceline"] =
                WithColumn(lines, "LineTotal",
                    [i \in 1..Len(lines.rows) |->
                        Times(lines.rows[i]["UnitPrice"], lines.rows[i]["Quantity"])])]
    ELSE tables

\* self.tables after the call of op: the methods work on copies
\* (self.tables[...].copy()) and merge returns a new frame, so the raw tables
\* are as they were.
RawAfter(op) == tables

\* The caller removes a table from the dictionary handed to ChinookModel.
DropTable(t) ==
    /\ edits < MaxEdits
    /\ t \in DOMAIN tables
    /\ DOMAIN tables # {t}
    /\ tables' = [n \in DOMAIN tables \ {t} |-> tables[n]]
    /\ edits' = edits + 1
    /\ result' = NoResult
    /\ called' = FALSE
    /\ UNCHANGED analyzerVars
    /\ UNCHANGED loaderVars

\* The caller's table t holds one more row.
AppendRow(t, r) ==
    /\ edits < MaxEdits
    /\ t \in DOMAIN tables
    /\ tables' = [tables EXCEPT ![t].rows = Append(@, r)]
    /\ edits' = edits + 1
    /\ result' = NoResult
    /\ called' = FALSE
    /\ UNCHANGED analyzerVars
    /\ UNCHANGED loaderVars

CallSalesLineItems ==
    /\ result' = sales_line_items
    /\ tables' = RawAfter("sales_line_items")
    /\ called' = (result.op # "none")
    /\ UNCHANGED edits
    /\ UNCHANGED analyzerVars
    /\ UNCHANGED loaderVars

CallCatalog ==
    /\ result' = catalog
    /\ tables' = RawAfter("catalog")
    /\ called' = (result.op # "none")
    /\ UNCHANGED edits
    /\ UNCHANGED analyzerVars
    /\ UNCHANGED loaderVars

CallCustomersDim ==
    /\ result' = customers_dim
    /\ tables' = RawAfter("customers_dim")
    /\ called' = (result.op # "none")
    /\ UNCHANGED edits
    /\ UNCHANGED analyzerVars
    /\ UNCHANGED loaderVars

InitAnalyzerIdle ==
    /\ caller_df = NoFrame
    /\ sales_df = NoFrame
    /\ phase = "building"
    /\ aresult = [op |-> "none", arg |-> 0, status |-> "none", rows |-> <<>>]
    /\ caller_catalog = None
    /\ catalog_df = None

\* No ChinookLoader exists: only the loader specification has one.
InitLoaderIdle ==
    /\ data_dir = [exists |-> FALSE, files |-> <<>>]
    /\ loader_tables = <<>>
    /\ lresult = [op |-> "none", status |-> "none", tables |-> <<>>, rows |-> {}]

\* No ChinookModel exists, and no loader: the analyzer specifications leave
\* them aside.
InitModelIdle ==
    /\ tables = <<>>
    /\ result = NoResult
    /\ edits = 0
    /\ called = FALSE
    /\ InitLoaderIdle

InitModel ==
    /\ tables = BaseTables
    /\ result = NoResult
    /\ edits = 0
    /\ called = FALSE
    /\ InitAnalyzerIdle
    /\ InitLoaderIdle

NextModel ==
    \/ \E t \in TableNames : DropTable(t)
    \/ \E t \in TableNames : \E r \in NewRows(t, IF t \in DOMAIN tables THEN Len(tables[t].rows) ELSE 0) : AppendRow(t, r)
    \/ CallSalesLineItems
    \/ CallCatalog
    \/ CallCustomersDim

SpecModel == InitModel /\ [][NextModel]_vars

-----------------------------------------------------------------------------
(* The sales table handed to ChinookAnalyzer.  InvoiceDate is the day of a *)
(* non-leap year (1 = 1 January) when it is, or parses to, a date; Bad is  *)
(* a value pandas.to_datetime cannot parse.                                *)

Bad == -2

\* Largest number of rows of a sales table in the RFM specification.
MaxRfmRows == 5

\* Largest number of rows of a sales table in the aggregation specification.
MaxAggRows == 3

Customers == {1, 2, 3}

\* A customer's country, as CustomerRow sets it.
CountryOf(c) == 40 + c

SalesCols == <<"CustomerId", "InvoiceId", "InvoiceDate", "LineTotal", "Country">>

SalesRow(c, i, d, t) ==
    [col \in Range(SalesCols) |->
        CASE col = "CustomerId" -> c
          [] col = "InvoiceId" -> i
          [] col = "InvoiceDate" -> d
          [] col = "LineTotal" -> t
          [] col = "Country" -> CountryOf(c)]

\* Sales tables are enumerated up to the order of their rows: every modelled
\* operation groups the rows by a key.
Cell(r, c) == IF c \in DOMAIN r THEN r[c] ELSE 0

RowRank(r) ==
    ((Cell(r, "CustomerId") * 10 + Cell(r, "InvoiceId")) * 1000 + (Cell(r, "InvoiceDate") + 2)) * 10
        + Cell(r, "LineTotal")

\* Rows of the RFM specification: every line is worth 1, so a customer's
\* Monetary is the number of their lines.
RfmRows == {SalesRow(c, i, d, 1) : c \in Customers, i \in {1, 2}, d \in {31, 32}}

AggRows == {SalesRow(c, 1, d, t) : c \in Customers, d \in {Bad, Null, 31, 32}, t \in {1, 2}}

\* The column sets of the sales tables a caller builds.
ColumnSets ==
    {SalesCols,
     SelectSeq(SalesCols, LAMBDA c : c # "Country"),
     SelectSeq(SalesCols, LAMBDA c : c # "LineTotal")}

\* The scenario of three customers: A = 1 (100, one invoice, 10 days before
\* the reference date), B = 2 (500 over five invoices, 1 day), C = 3 (50,
\* one invoice, 100 days).  The reference date is day 102.
ScenarioFrame ==
    [cols |-> SalesCols,
     rows |-> <<SalesRow(1, 1, 92, 100),
                SalesRow(2, 2, 97, 100), SalesRow(2, 3, 98, 100), SalesRow(2, 4, 99, 100),
                SalesRow(2, 5, 100, 100), SalesRow(2, 6, 101, 100),
                SalesRow(3, 7, 2, 50)>>]

-----------------------------------------------------------------------------
(* Series helpers (pandas semantics: nulls are skipped by max, sum,        *)
(* nunique and as group keys).                                             *)

Column(df, col) == [i \in 1..Len(df.rows) |-> df.rows[i][col]]

NonNull(s) == SelectSeq(s, LAMBDA x : x # Null)

RECURSIVE SumSeq(_)
SumSeq(s) == IF s = <<>> THEN 0 ELSE Head(s) + SumSeq(Tail(s))

SeriesSum(s) == SumSeq(NonNull(s))

SeriesMax(s) ==
    LET v == Range(NonNull(s))
    IN IF v = {} THEN Null ELSE CHOOSE m \in v : \A x \in v : x <= m

NUnique(s) == Cardinality(Range(NonNull(s)))

Ascending(s) == SortSeq(s, LAMBDA a, b : a < b)

\* The elements of a set of integers, ascending.
SortedSeqOf(S) ==
    [i \in 1..Cardinality(S) |-> CHOOSE k \in S : Cardinality({x \in S : x < k}) = i - 1]

\* The group keys of df.groupby(col): distinct, non-null, ascending.
GroupKeys(df, col) == SortedSeqOf(Range(NonNull(Column(df, col))))

GroupRows(df, col, k) == [cols |-> df.cols, rows |-> SelectSeq(df.rows, LAMBDA r : r[col] = k)]

\* df.groupby(col)["LineTotal"].sum(): one row per group key, ascending.
GroupSum(df, col, as) ==
    LET ks == GroupKeys(df, col)
    IN [i \in 1..Len(ks) |->
            [c \in {col, as} |->
                IF c = col THEN ks[i]
                ELSE SeriesSum(Column(GroupRows(df, col, ks[i]), "LineTotal"))]]

-----------------------------------------------------------------------------
(* ChinookAnalyzer                                                         *)

AReturned(op, arg, rows) == [op |-> op, arg |-> arg, status |-> "ok", rows |-> rows]

ARaised(op, arg, err) == [op |-> op, arg |-> arg, status |-> err, rows |-> <<>>]

ANoResult == [op |-> "none", arg |-> 0, status |-> "none", rows |-> <<>>]

\* pd.to_datetime(value, errors="coerce")
ToDatetime(d) == IF d = Bad THEN Null ELSE d

\* required_cols - set(sales_df.columns)
MissingRequiredCols(df) == {"InvoiceDate", "LineTotal"} \ Range(df.cols)

\* The analyzer's copy of the caller's table, InvoiceDate coerced.
CoercedCopy(df) ==
    [cols |-> df.cols,
     rows |-> [i \in 1..Len(df.rows) |->
                [c \in DOMAIN df.rows[i] |->
                    IF c = "InvoiceDate" THEN ToDatetime(df.rows[i][c]) ELSE df.rows[i][c]]]]

\* _check_column(col): the column is in sales_df.
HasColumn(col) == col \in Range(sales_df.cols)

\* revenue_by_month(): rows with a null InvoiceDate have a null Month and fall
\* out of the groupby.
revenue_by_month ==
    LET df == WithColumn(sales_df, "Month",
                    [i \in 1..Len(sales_df.rows) |-> MonthOfDay(sales_df.rows[i]["InvoiceDate"])])
    IN AReturned("revenue_by_month", 0, GroupSum(df, "Month", "Revenue"))

\* Series.tail(n): the last n rows, all but the first -n when n is negative.
SeqTail(s, n) ==
    IF n >= 0 THEN SubSeq(s, IF n < Len(s) THEN Len(s) - n + 1 ELSE 1, Len(s))
    ELSE SubSeq(s, 1 - n, Len(s))

\* Series.head(n): the first n rows, all but the last -n when n is negative.
SeqHead(s, n) ==
    IF n >= 0 THEN SubSeq(s, 1, IF n < Len(s) THEN n ELSE Len(s))
    ELSE SubSeq(s, 1, IF Len(s) + n > 0 THEN Len(s) + n ELSE 0)

AscendingBy(col, a, b) == a[col] < b[col]

\* sort_values(ascending=False): a comes before b.
DescendingBy(col, a, b) == a[col] > b[col]

\* The orders in which sort_values(col, ascending=False) may leave rows: every
\* arrangement sorted by DescendingBy; the order of rows that tie is not
\* specified.
SortedOrders(rows, col) ==
    {[i \in 1..Len(rows) |-> rows[p[i]]] :
        p \in {q \in Permutations(1..Len(rows)) :
                \A i, j \in 1..Len(rows) : i < j => ~DescendingBy(col, rows[q[j]], rows[q[i]])}}

\* The outcomes of top_countries_by_revenue(n).
top_countries_by_revenue(n) ==
    IF ~HasColumn("Country") THEN {ARaised("top_countries_by_revenue", n, "KeyError")}
    ELSE {AReturned("top_countries_by_revenue", n, SeqHead(o, n)) :
            o \in SortedOrders(GroupSum(sales_df, "Country", "Revenue"), "Revenue")}

-----------------------------------------------------------------------------
(* pandas.qcut(series, q, labels=False, duplicates=...) and safe_qcut.     *)
(* Bin edges are kept multiplied by q, so that the linear interpolation of *)
(* Series.quantile stays in the integers.                                  *)

\* q times the quantile k/q of the ascending values v (linear interpolation
\* between the two values around position (n - 1) * k / q).
ScaledEdge(v, k, q) ==
    LET pos == (Len(v) - 1) * k
        lo == pos \div q + 1
        frac == pos % q
    IN IF frac = 0 THEN q * v[lo] ELSE q * v[lo] + (v[lo + 1] - v[lo]) * frac

\* The q + 1 bin edges, ascending, duplicates kept.
ScaledEdges(v, q) == [k \in 1..(q + 1) |-> ScaledEdge(v, k - 1, q)]

\* bins.searchsorted(x, side="left"), then ids[x == bins[0]] = 1.
BinId(edges, x) ==
    IF x = edges[1] THEN 1 ELSE Cardinality({i \in 1..Len(edges) : edges[i] < x})

\* The 0-based bin label of x, or Null (NaN) when x is null or falls in no bin.
BinLabel(edges, q, x) ==
    IF x = Null THEN Null
    ELSE LET id == BinId(edges, q * x)
         IN IF id = Len(edges) \/ id = 0 THEN Null ELSE id - 1

\* pd.qcut: ValueError when edges repeat and duplicates = "raise"; with
\* "drop" the repeated edges are dropped.
Qcut(series, q, duplicates) ==
    LET v == Ascending(NonNull(series))
        all == IF v = <<>> THEN <<>> ELSE ScaledEdges(v, q)
        uniq == SortedSeqOf(Range(all))
    IN IF Len(uniq) < Len(all) /\ duplicates = "raise"
       THEN [raised |-> TRUE, labels |-> <<>>]
       ELSE [raised |-> FALSE,
             labels |-> [i \in 1..Len(series) |->
                            IF uniq = <<>> THEN Null ELSE BinLabel(uniq, q, series[i])]]

\* series.rank(method="first"): 1-based position in the stable ascending order.
RankFirst(series) ==
    [i \in 1..Len(series) |->
        IF series[i] = Null THEN Null
        ELSE Cardinality({j \in 1..Len(series) :
                /\ series[j] # Null
                /\ \/ series[j] < series[i]
                   \/ series[j] = series[i] /\ j <= i})]

\* The duplicates argument safe_qcut passes to its first pd.qcut.
DuplicatesRaise == "raise"

QcutDuplicates == "drop"

\* bins + 1 without the 1: scores left 0-based.
ZeroBased(labels) == labels

\* pd.Series(bins) + 1; NaN stays NaN.
OneBased(labels) == [i \in 1..Len(labels) |-> IF labels[i] = Null THEN Null ELSE labels[i] + 1]

\* No inversion at all.
NotReversed(scores) == scores

\* (bins.max() + 1) - bins; NaN stays NaN.
Reversed(scores) ==
    LET top == SeriesMax(scores)
    IN [i \in 1..Len(scores) |-> IF scores[i] = Null THEN Null ELSE (top + 1) - scores[i]]

\* safe_qcut up to its closing astype(int); a Null score makes that cast raise.
safe_qcut(series, q, reverse) ==
    LET first == Qcut(series, q, QcutDuplicates)
        bins == IF first.raised THEN Qcut(RankFirst(series), q, "drop").labels ELSE first.labels
        scores == OneBased(bins)
    IN IF reverse THEN Reversed(scores) ELSE scores

-----------------------------------------------------------------------------
(* rfm_analysis                                                            *)

\* today = sales_df["InvoiceDate"].max() + Timedelta(days=1)
Today ==
    LET m == SeriesMax(Column(sales_df, "InvoiceDate"))
    IN IF m = Null THEN Null ELSE m + 1

\* The groupby("CustomerId").agg(...) frame: one row per customer, ascending.
RfmBase ==
    LET ks == GroupKeys(sales_df, "CustomerId")
    IN [i \in 1..Len(ks) |->
            LET g == GroupRows(sales_df, "CustomerId", ks[i])
                last == SeriesMax(Column(g, "InvoiceDate"))
            IN [CustomerId |-> ks[i],
                Recency |-> IF Today = Null \/ last = Null THEN Null ELSE Today - last,
                Frequency |-> NUnique(Column(g, "InvoiceId")),
                Monetary |-> SeriesSum(Column(g, "LineTotal"))]]

Field(rows, f) == [i \in 1..Len(rows) |-> rows[i][f]]

\* The scored frame, before the sort.
RfmScored ==
    LET base == RfmBase
        r == safe_qcut(Field(base, "Recency"), 5, TRUE)
        f == safe_qcut(Field(base, "Frequency"), 5, FALSE)
        m == safe_qcut(Field(base, "Monetary"), 5, FALSE)
    IN [i \in 1..Len(base) |->
            [CustomerId |-> base[i].CustomerId,
             Recency |-> base[i].Recency,
             Frequency |-> base[i].Frequency,
             Monetary |-> base[i].Monetary,
             R_Score |-> r[i], F_Score |-> f[i], M_Score |-> m[i],
             RFM_Score |-> IF Null \in {r[i], f[i], m[i]} THEN Null ELSE r[i] + f[i] + m[i]]]

\* The outcomes of rfm_analysis().  astype(int) raises ValueError on a NaN
\* score; what pandas makes of an empty frame is left open.
rfm_analysis ==
    IF ~HasColumn("CustomerId") THEN {ARaised("rfm_analysis", 0, "KeyError")}
    ELSE LET scored == RfmScored
         IN IF scored = <<>>
            THEN {AReturned("rfm_analysis", 0, <<>>), ARaised("rfm_analysis", 0, "ValueError")}
            ELSE IF \E i \in 1..Len(scored) : Null \in {scored[i].R_Score, scored[i].F_Score, scored[i].M_Score}
            THEN {ARaised("rfm_analysis", 0, "ValueError")}
            ELSE {AReturned("rfm_analysis", 0, o) :
                    o \in SortedOrders(scored, "RFM_Score")}

-----------------------------------------------------------------------------
(* The other rankings of ChinookAnalyzer, and the sales tables that carry  *)
(* the columns they group by.                                              *)

\* Largest number of rows of each table the caller builds in the analyzer
\* specification.
MaxFrameRows == 2

FullCols == SalesCols \o <<"Name_genre", "Name_artist", "FirstName", "LastName">>

\* A sales line with its genre and artist (fixed by the invoice) and the
\* customer's names.
FullRow(c, i, d, t) ==
    [col \in Range(FullCols) |->
        CASE col = "Name_genre" -> 60 + i
          [] col = "Name_artist" -> 70 + i
          [] col = "FirstName" -> 10 + c
          [] col = "LastName" -> 20 + c
          [] OTHER -> SalesRow(c, i, d, t)[col]]

FrameRows == {FullRow(c, i, 30 + i, 1) : c \in {1, 2}, i \in {1, 2}}

\* groupby(col)["LineTotal"].sum().sort_values(ascending=False).head(n)
TopByRevenue(op, col, n) ==
    IF ~HasColumn(col) THEN {ARaised(op, n, "KeyError")}
    ELSE {AReturned(op, n, SeqHead(o, n)) :
            o \in SortedOrders(GroupSum(sales_df, col, "Revenue"), "Revenue")}

top_genres_by_revenue(n) == TopByRevenue("top_genres_by_revenue", "Name_genre", n)

top_artists_by_revenue(n) == TopByRevenue("top_artists_by_revenue", "Name_artist", n)

RECURSIVE SeqOfSet(_)
SeqOfSet(S) ==
    IF S = {} THEN <<>>
    ELSE LET x == CHOOSE y \in S : TRUE IN <<x>> \o SeqOfSet(S \ {x})

\* The outcomes of customer_lifetime_value(n): one row per (CustomerId,
\* FirstName, LastName) without a null, largest total first.
customer_lifetime_value(n) ==
    IF ~(HasColumn("CustomerId") /\ HasColumn("FirstName") /\ HasColumn("LastName"))
    THEN {ARaised("customer_lifetime_value", n, "KeyError")}
    ELSE LET keyed == SelectSeq(sales_df.rows,
                        LAMBDA r : Null \notin {r["CustomerId"], r["FirstName"], r["LastName"]})
             keys == {<<keyed[i]["CustomerId"], keyed[i]["FirstName"], keyed[i]["LastName"]>> :
                        i \in 1..Len(keyed)}
             total(k) == SeriesSum(Column(
                            [cols |-> sales_df.cols,
                             rows |-> SelectSeq(keyed, LAMBDA r :
                                        <<r["CustomerId"], r["FirstName"], r["LastName"]>> = k)],
                            "LineTotal"))
             sums == SeqOfSet({[CustomerId |-> k[1], FirstName |-> k[2], LastName |-> k[3],
                                TotalRevenue |-> total(k)] : k \in keys})
         IN {AReturned("customer_lifetime_value", n, SeqHead(o, n)) :
                o \in SortedOrders(sums, "TotalRevenue")}

-----------------------------------------------------------------------------
(* The catalog table handed to ChinookAnalyzer, and the analyses that read *)
(* it.  A title is a sequence of one-character strings; NaName is a        *)
(* missing title.  A track's DurationMin is fixed by its title.            *)

NaName == <<"<NA>">>

\* Largest number of rows of a catalog table in the text specification.
MaxCatalogRows == 2

CatalogCols == <<"Name", "DurationMin">>

CatalogRow(title) ==
    [col \in Range(CatalogCols) |->
        CASE col = "Name" -> title
          [] col = "DurationMin" -> IF title = NaName THEN Null ELSE Len(title) + 1]

\* The characters of the enumerated titles: a capital, a letter, a character
\* that is neither, and the blank.
TitleAlphabet == <<"A", "b", "-", " ">>

TitleLengths == 0..2

Titles == {NaName} \cup UNION {[1..k -> Range(TitleAlphabet)] : k \in TitleLengths}

\* Catalog tables are enumerated up to the order of their rows.
CharRank(c) ==
    IF c \in Range(TitleAlphabet) THEN CHOOSE i \in 1..Len(TitleAlphabet) : TitleAlphabet[i] = c
    ELSE 0

RECURSIVE TitleRank(_)
TitleRank(t) ==
    IF t = NaName THEN 0
    ELSE IF t = <<>> THEN 1
    ELSE CharRank(Head(t)) + 5 * TitleRank(Tail(t))

\* The scenario of two titles.
ScenarioCatalog ==
    [cols |-> CatalogCols,
     rows |-> <<CatalogRow(<<"T", "h", "e", " ", "S", "u", "n", " ", "R", "i", "s", "e", "s">>),
                CatalogRow(<<"S", "u", "n", " ", "a", "n", "d", " ", "M", "o", "o", "n">>)>>]

\* A catalog_df that defaults to an empty table.
DefaultedCatalog(c) == IF c = None THEN NoFrame ELSE c

\* catalog_df.copy() if catalog_df is not None else None
HeldCatalog(c) == IF c = None THEN None ELSE c

\* raise ValueError("catalog_df is required for ..."), as distinct from the
\* ValueError of a failed conversion.
CatalogMissing == "ValueError: catalog_df is required"

\* _check_column(col, df=self.catalog_df): with df None the sales table is
\* the one checked.
HasCatalogColumn(col) ==
    IF catalog_df = None THEN HasColumn(col) ELSE col \in Range(catalog_df.cols)

UpperAZ ==
    <<"A", "B", "C", "D", "E", "F", "G", "H", "I", "J", "K", "L", "M",
      "N", "O", "P", "Q", "R", "S", "T", "U", "V", "W", "X", "Y", "Z">>

LowerAZ ==
    <<"a", "b", "c", "d", "e", "f", "g", "h", "i", "j", "k", "l", "m",
      "n", "o", "p", "q", "r", "s", "t", "u", "v", "w", "x", "y", "z">>

Whitespace == {" "}

\* str.lower() on one character.
Lower(c) ==
    IF c \in Range(UpperAZ) THEN LowerAZ[CHOOSE i \in 1..Len(UpperAZ) : UpperAZ[i] = c] ELSE c

NotLowered(title) == title

\* .str.lower()
StrLower(title) == [i \in 1..Len(title) |-> Lower(title[i])]

\* .str.replace(r"[^a-z\s]", "", regex=True)
StrReplace(title) == SelectSeq(title, LAMBDA c : c \in Range(LowerAZ) \cup Whitespace)

\* .str.split(): the maximal runs of characters that are not whitespace;
\* word is the run being read.
RECURSIVE SplitFrom(_, _)
SplitFrom(title, word) ==
    IF title = <<>> THEN (IF word = <<>> THEN <<>> ELSE <<word>>)
    ELSE IF Head(title) \in Whitespace
         THEN (IF word = <<>> THEN <<>> ELSE <<word>>) \o SplitFrom(Tail(title), <<>>)
         ELSE SplitFrom(Tail(title), Append(word, Head(title)))

StrSplit(title) == SplitFrom(title, <<>>)

\* The stopwords used when the caller passes none.
DefaultStopwords ==
    {<<"t", "h", "e">>, <<"a">>, <<"a", "n", "d">>, <<"o", "f">>, <<"t", "o">>,
     <<"i", "n">>, <<"o", "n">>, <<"f", "o", "r">>, <<"w", "i", "t", "h">>}

\* The words of the catalog's titles, in order, stopwords left out.
FlatWords(stopwords) ==
    LET names == SelectSeq(Column(catalog_df, "Name"), LAMBDA t : t # NaName)
        words == [i \in 1..Len(names) |-> StrSplit(StrReplace(StrLower(names[i])))]
    IN SelectSeq(Concat(words), LAMBDA w : w \notin stopwords)

\* The distinct elements of a sequence, in the order of their first
\* appearance.
RECURSIVE Distinct(_)
Distinct(s) ==
    IF s = <<>> THEN <<>>
    ELSE <<Head(s)>> \o Distinct(SelectSeq(Tail(s), LAMBDA x : x # Head(s)))

\* Series.value_counts(): one row per distinct word, most frequent first;
\* the order of words that tie is not specified.
ValueCounts(words) ==
    LET ws == Distinct(words)
    IN SortedOrders([i \in 1..Len(ws) |-> [Word |-> ws[i], Frequency |-> Len(SelectSeq(words, LAMBDA x : x = ws[i]))]],
                    "Frequency")

TopWordsReturned(n, stopwords, rows) ==
    [op |-> "top_words_in_track_titles", arg |-> n, status |-> "ok", rows |-> rows,
     stopwords |-> stopwords]

\* The outcomes of top_words_in_track_titles(n, stopwords).
top_words_in_track_titles(n, stopwords) ==
    IF catalog_df = None THEN {ARaised("top_words_in_track_titles", n, CatalogMissing)}
    ELSE IF ~HasCatalogColumn("Name") THEN {ARaised("top_words_in_track_titles", n, "KeyError")}
    ELSE {TopWordsReturned(n, stopwords, SeqHead(o, n)) : o \in ValueCounts(FlatWords(stopwords))}

SeriesMin(s) ==
    LET v == Range(NonNull(s))
    IN IF v = {} THEN Null ELSE CHOOSE m \in v : \A x \in v : m <= x

\* duration_stats(): of the statistics of describe(), count, min and max, and
\* the total that its mean divides by count.
duration_stats ==
    IF catalog_df = None THEN ARaised("duration_stats", 0, CatalogMissing)
    ELSE IF ~HasCatalogColumn("DurationMin") THEN ARaised("duration_stats", 0, "KeyError")
    ELSE LET s == Column(catalog_df, "DurationMin")
         IN AReturned("duration_stats", 0,
                <<[count |-> Len(NonNull(s)), total |-> SeriesSum(s),
                   min |-> SeriesMin(s), max |-> SeriesMax(s)]>>)

-----------------------------------------------------------------------------
(* Actions of the analyzer: the caller builds a sales table, constructs    *)
(* the analyzer on it and calls its methods.                               *)

AddSalesRow(r, max) ==
    /\ phase = "building"
    /\ Len(caller_df.rows) < max
    /\ LET new == [c \in Range(caller_df.cols) |-> r[c]]
       IN /\ caller_df.rows # <<>> => RowRank(caller_df.rows[Len(caller_df.rows)]) <= RowRank(new)
          /\ caller_df' = [caller_df EXCEPT !.rows = Append(@, new)]
    /\ UNCHANGED <<sales_df, phase, aresult>>
    /\ UNCHANGED catalogVars
    /\ UNCHANGED modelVars
    /\ UNCHANGED loaderVars

\* The caller's table is the three-customer scenario.
LoadScenario ==
    /\ phase = "building"
    /\ caller_df = [cols |-> SalesCols, rows |-> <<>>]
    /\ caller_df' = ScenarioFrame
    /\ UNCHANGED <<sales_df, phase, aresult>>
    /\ UNCHANGED catalogVars
    /\ UNCHANGED modelVars
    /\ UNCHANGED loaderVars

Aliased == TRUE

\* Whether self.sales_df and self.catalog_df are the very objects the caller
\* passed: __init__ keeps copies of them.
HoldsCallersObjects == FALSE

\* ChinookAnalyzer.__init__(caller_df, caller_catalog): the date coercion
\* writes into self.sales_df.
Construct ==
    /\ phase = "building"
    /\ IF MissingRequiredCols(caller_df) # {}
       THEN /\ phase' = "rejected"
            /\ aresult' = ARaised("__init__", 0, "KeyError")
            /\ UNCHANGED <<sales_df, catalog_df, caller_df>>
       ELSE /\ phase' = "ready"
            /\ sales_df' = CoercedCopy(caller_df)
            /\ catalog_df' = HeldCatalog(caller_catalog)
            /\ caller_df' = IF HoldsCallersObjects THEN sales_df' ELSE caller_df
            /\ UNCHANGED aresult
    /\ UNCHANGED caller_catalog
    /\ UNCHANGED modelVars
    /\ UNCHANGED loaderVars

CallRfmAnalysis ==
    /\ phase = "ready"
    /\ aresult' \in rfm_analysis
    /\ UNCHANGED <<caller_df, sales_df, phase>>
    /\ UNCHANGED catalogVars
    /\ UNCHANGED modelVars
    /\ UNCHANGED loaderVars

CallRevenueByMonth ==
    /\ phase = "ready"
    /\ aresult' = revenue_by_month
    /\ UNCHANGED <<caller_df, sales_df, phase>>
    /\ UNCHANGED catalogVars
    /\ UNCHANGED modelVars
    /\ UNCHANGED loaderVars

CallTopCountries(n) ==
    /\ phase = "ready"
    /\ aresult' \in top_countries_by_revenue(n)
    /\ UNCHANGED <<caller_df, sales_df, phase>>
    /\ UNCHANGED catalogVars
    /\ UNCHANGED modelVars
    /\ UNCHANGED loaderVars

CallTopGenres(n) ==
    /\ phase = "ready"
    /\ aresult' \in top_genres_by_revenue(n)
    /\ UNCHANGED <<caller_df, sales_df, phase>>
    /\ UNCHANGED catalogVars
    /\ UNCHANGED modelVars
    /\ UNCHANGED loaderVars

CallTopArtists(n) ==
    /\ phase = "ready"
    /\ aresult' \in top_artists_by_revenue(n)
    /\ UNCHANGED <<caller_df, sales_df, phase>>
    /\ UNCHANGED catalogVars
    /\ UNCHANGED modelVars
    /\ UNCHANGED loaderVars

CallCustomerLifetimeValue(n) ==
    /\ phase = "ready"
    /\ aresult' \in customer_lifetime_value(n)
    /\ UNCHANGED <<caller_df, sales_df, phase>>
    /\ UNCHANGED catalogVars
    /\ UNCHANGED modelVars
    /\ UNCHANGED loaderVars

\* The caller's catalog table holds one more track.
AddCatalogRow(title, max) ==
    /\ phase = "building"
    /\ caller_catalog # None
    /\ Len(caller_catalog.rows) < max
    /\ LET new == [c \in Range(caller_catalog.cols) |-> CatalogRow(title)[c]]
           last == caller_catalog.rows[Len(caller_catalog.rows)]
       IN /\ (caller_catalog.rows # <<>> /\ "Name" \in DOMAIN new)
                => TitleRank(last["Name"]) <= TitleRank(title)
          /\ caller_catalog' = [caller_catalog EXCEPT !.rows = Append(@, new)]
    /\ UNCHANGED <<caller_df, sales_df, phase, aresult, catalog_df>>
    /\ UNCHANGED modelVars
    /\ UNCHANGED loaderVars

\* The caller's catalog is the scenario of two titles.
LoadScenarioCatalog ==
    /\ phase = "building"
    /\ caller_catalog = [cols |-> CatalogCols, rows |-> <<>>]
    /\ caller_catalog' = ScenarioCatalog
    /\ UNCHANGED <<caller_df, sales_df, phase, aresult, catalog_df>>
    /\ UNCHANGED modelVars
    /\ UNCHANGED loaderVars

\* stopwords=None takes DefaultStopwords.
CallTopWords(n, stopwords) ==
    /\ phase = "ready"
    /\ aresult' \in top_words_in_track_titles(n, stopwords)
    /\ UNCHANGED <<caller_df, sales_df, phase>>
    /\ UNCHANGED catalogVars
    /\ UNCHANGED modelVars
    /\ UNCHANGED loaderVars

CallDurationStats ==
    /\ phase = "ready"
    /\ aresult' = duration_stats
    /\ UNCHANGED <<caller_df, sales_df, phase>>
    /\ UNCHANGED catalogVars
    /\ UNCHANGED modelVars
    /\ UNCHANGED loaderVars

\* After the construction the caller appends a row to the sales table
\* passed to the analyzer.
CallerAppendsSales(r) ==
    /\ phase = "ready"
    /\ edits < MaxEdits
    /\ caller_df' = [caller_df EXCEPT !.rows = Append(@, [c \in Range(caller_df.cols) |-> r[c]])]
    /\ sales_df' = IF HoldsCallersObjects THEN caller_df' ELSE sales_df
    /\ edits' = edits + 1
    /\ UNCHANGED <<phase, aresult, tables, result, called>>
    /\ UNCHANGED catalogVars
    /\ UNCHANGED loaderVars

\* After the construction the caller appends a track to the catalog table
\* passed to the analyzer.
CallerAppendsCatalog(title) ==
    /\ phase = "ready"
    /\ edits < MaxEdits
    /\ caller_catalog # None
    /\ caller_catalog' =
            [caller_catalog EXCEPT !.rows =
                Append(@, [c \in Range(caller_catalog.cols) |-> CatalogRow(title)[c]])]
    /\ catalog_df' = IF HoldsCallersObjects THEN caller_catalog' ELSE catalog_df
    /\ edits' = edits + 1
    /\ UNCHANGED <<caller_df, sales_df, phase, aresult, tables, result, called>>
    /\ UNCHANGED loaderVars

InitAnalyzer ==
    /\ caller_df \in {[cols |-> cs, rows |-> <<>>] : cs \in ColumnSets}
    /\ sales_df = NoFrame
    /\ phase = "building"
    /\ aresult = ANoResult
    /\ caller_catalog = None
    /\ catalog_df = None
    /\ InitModelIdle

InitRfm ==
    /\ caller_df = [cols |-> SalesCols, rows |-> <<>>]
    /\ sales_df = NoFrame
    /\ phase = "building"
    /\ aresult = ANoResult
    /\ caller_catalog = None
    /\ catalog_df = None
    /\ InitModelIdle

NextRfm ==
    \/ \E r \in RfmRows : AddSalesRow(r, MaxRfmRows)
    \/ LoadScenario
    \/ Construct
    \/ CallRfmAnalysis

SpecRfm == InitRfm /\ [][NextRfm]_vars

NextAgg ==
    \/ \E r \in AggRows : AddSalesRow(r, MaxAggRows)
    \/ Construct
    \/ CallRevenueByMonth
    \/ \E n \in -1..3 : CallTopCountries(n)

SpecAgg == InitAnalyzer /\ [][NextAgg]_vars

InitFrame ==
    /\ caller_df = [cols |-> FullCols, rows |-> <<>>]
    /\ sales_df = NoFrame
    /\ phase = "building"
    /\ aresult = ANoResult
    /\ caller_catalog \in {None, [cols |-> CatalogCols, rows |-> <<>>],
                           [cols |-> <<"DurationMin">>, rows |-> <<>>]}
    /\ catalog_df = None
    /\ InitModelIdle

\* Every method of the analyzer, in any order, and the caller's later changes
\* to the tables it passed.
NextFrame ==
    \/ \E r \in FrameRows : AddSalesRow(r, MaxFrameRows)
    \/ \E t \in {NaName, <<"A", "b">>} : AddCatalogRow(t, MaxFrameRows)
    \/ Construct
    \/ CallRfmAnalysis
    \/ CallRevenueByMonth
    \/ CallTopCountries(1)
    \/ CallTopGenres(1)
    \/ CallTopArtists(1)
    \/ CallCustomerLifetimeValue(1)
    \/ CallTopWords(1, DefaultStopwords)
    \/ CallDurationStats
    \/ CallerAppendsSales(FullRow(2, 2, 32, 1))
    \/ CallerAppendsCatalog(<<"b">>)

SpecFrame == InitFrame /\ [][NextFrame]_vars

InitWords ==
    /\ caller_df = [cols |-> SalesCols, rows |-> <<>>]
    /\ sales_df = NoFrame
    /\ phase = "building"
    /\ aresult = ANoResult
    /\ caller_catalog = [cols |-> CatalogCols, rows |-> <<>>]
    /\ catalog_df = None
    /\ InitModelIdle

NextWords ==
    \/ \E t \in Titles : AddCatalogRow(t, MaxCatalogRows)
    \/ LoadScenarioCatalog
    \/ Construct
    \/ \E n \in -1..3 : \E stopwords \in {DefaultStopwords, {}, {<<"b">>}} : CallTopWords(n, stopwords)

SpecWords == InitWords /\ [][NextWords]_vars

-----------------------------------------------------------------------------
(* ChinookLoader (io.py).  A file name and a table name are sequences of   *)
(* one-character strings.  A file's content either parses to a DataFrame   *)
(* or makes pandas.read_csv raise.                                         *)

FileNames ==
    {<<"G", ".", "c", "s", "v">>, <<"g", ".", "C", "S", "V">>,
     <<"t", ".", "c", "s", "v">>, <<"n", ".", "t", "x", "t">>}

\* One row, with a date that parses.
FrameOne ==
    [cols |-> <<"Id", "InvoiceDate">>,
     rows |-> <<[c \in {"Id", "InvoiceDate"} |-> IF c = "Id" THEN 1 ELSE 31]>>]

\* The same row twice, with a date that does not parse.
FrameTwo ==
    [cols |-> <<"Id", "InvoiceDate">>,
     rows |-> <<[c \in {"Id", "InvoiceDate"} |-> IF c = "Id" THEN 1 ELSE Bad],
                [c \in {"Id", "InvoiceDate"} |-> IF c = "Id" THEN 1 ELSE Bad]>>]

Contents ==
    {[parsable |-> FALSE, df |-> NoFrame],
     [parsable |-> TRUE, df |-> FrameOne],
     [parsable |-> TRUE, df |-> FrameTwo]}

\* filename.lower().endswith(".csv")
IsCsv(filename) ==
    /\ Len(filename) >= 4
    /\ SubSeq(StrLower(filename), Len(filename) - 3, Len(filename)) = <<".", "c", "s", "v">>

\* os.path.splitext(filename)[0]: the name up to its last dot.
SplitExtRoot(filename) ==
    LET dots == {i \in 2..Len(filename) : filename[i] = "."}
    IN IF dots = {} THEN filename
       ELSE SubSeq(filename, 1, (CHOOSE i \in dots : \A j \in dots : j <= i) - 1)

\* table_name = os.path.splitext(filename)[0].lower()
TableNameOf(filename) == StrLower(SplitExtRoot(filename))

\* df[col] = pd.to_datetime(df[col], errors="coerce") for the columns with
\* "date" in col.lower(): of the modelled columns, InvoiceDate.
ParseDates(df) ==
    [cols |-> df.cols,
     rows |-> [i \in 1..Len(df.rows) |->
                [c \in DOMAIN df.rows[i] |->
                    IF c = "InvoiceDate" THEN ToDatetime(df.rows[i][c]) ELSE df.rows[i][c]]]]

\* The ValueError messages of the loader.
FailedToRead == "ValueError: Failed to read"

NoCsvFiles == "ValueError: No CSV files were found"

NoTablesLoaded == "ValueError: No tables loaded"

LNoResult == [op |-> "none", status |-> "none", tables |-> <<>>, rows |-> {}]

LReturned(op, tbls, rows) == [op |-> op, status |-> "ok", tables |-> tbls, rows |-> rows]

LRaised(op, err) == [op |-> op, status |-> err, tables |-> <<>>, rows |-> {}]

\* The loop of load_tables() over the files in the order os.listdir gave,
\* writing into the dictionary tbls: the dictionary when the loop ends, and
\* whether read_csv raised.
RECURSIVE LoadLoop(_, _)
LoadLoop(order, tbls) ==
    IF order = <<>> THEN [tables |-> tbls, failed |-> FALSE]
    ELSE LET filename == Head(order)
             content == data_dir.files[filename]
             table_name == TableNameOf(filename)
         IN IF ~IsCsv(filename) THEN LoadLoop(Tail(order), tbls)
            ELSE IF ~content.parsable THEN [tables |-> tbls, failed |-> TRUE]
            ELSE LoadLoop(Tail(order),
                          [n \in DOMAIN tbls \cup {table_name} |->
                              IF n = table_name THEN ParseDates(content.df) ELSE tbls[n]])

\* os.listdir(self.data_dir): the files, in an arbitrary order.
ListDirs ==
    LET fs == DOMAIN data_dir.files
    IN {[i \in 1..Cardinality(fs) |-> p[i]] : p \in {q \in [1..Cardinality(fs) -> fs] :
                                                    \A i, j \in 1..Cardinality(fs) : i # j => q[i] # q[j]}}

\* summary(): one row per loaded table, up to the order of the rows.
summary ==
    IF DOMAIN loader_tables = {} THEN LRaised("summary", NoTablesLoaded)
    ELSE LReturned("summary", <<>>,
            {[table |-> n,
              rows |-> Len(loader_tables[n].rows),
              columns |-> Len(loader_tables[n].cols),
              missing_values |->
                Cardinality({p \in (1..Len(loader_tables[n].rows)) \X Range(loader_tables[n].cols) :
                                loader_tables[n].rows[p[1]][p[2]] = Null})] :
                n \in DOMAIN loader_tables})

\* validate_schema(): the tables with duplicate rows and those with a column
\* that is null throughout, or a single status row.
validate_schema ==
    IF DOMAIN loader_tables = {} THEN LRaised("validate_schema", NoTablesLoaded)
    ELSE LET duplicated ==
                {n \in DOMAIN loader_tables :
                    \E i, j \in 1..Len(loader_tables[n].rows) :
                        i # j /\ loader_tables[n].rows[i] = loader_tables[n].rows[j]}
             empty_cols ==
                {n \in DOMAIN loader_tables :
                    \E c \in Range(loader_tables[n].cols) :
                        \A i \in 1..Len(loader_tables[n].rows) : loader_tables[n].rows[i][c] = Null}
             issues == {[table |-> n, issue |-> "Contains duplicate rows"] : n \in duplicated}
                        \cup {[table |-> n, issue |-> "Empty columns detected"] : n \in empty_cols}
         IN LReturned("validate_schema", <<>>,
                IF issues # {} THEN issues ELSE {[status |-> "No major schema issues detected."]})

-----------------------------------------------------------------------------
(* Actions of the loader: the directory's files come and go, and the       *)
(* loader's methods are called.                                            *)

MakeDir ==
    /\ ~data_dir.exists
    /\ data_dir' = [exists |-> TRUE, files |-> <<>>]
    /\ UNCHANGED <<loader_tables, lresult>>
    /\ UNCHANGED modelVars
    /\ UNCHANGED analyzerVars

\* A file is written to the directory, new or over the file of that name.
PutFile(filename, content) ==
    /\ data_dir.exists
    /\ data_dir' = [data_dir EXCEPT !.files =
                        [f \in DOMAIN @ \cup {filename} |-> IF f = filename THEN content ELSE @[f]]]
    /\ UNCHANGED <<loader_tables, lresult>>
    /\ UNCHANGED modelVars
    /\ UNCHANGED analyzerVars

RemoveFile(filename) ==
    /\ data_dir.exists
    /\ filename \in DOMAIN data_dir.files
    /\ data_dir' = [data_dir EXCEPT !.files = [f \in DOMAIN @ \ {filename} |-> @[f]]]
    /\ UNCHANGED <<loader_tables, lresult>>
    /\ UNCHANGED modelVars
    /\ UNCHANGED analyzerVars

\* load_tables(): the loop writes into self.tables as the calls before left
\* it, and an assignment made before read_csv raises stays.
LoadTables ==
    /\ IF ~data_dir.exists
       THEN /\ lresult' = LRaised("load_tables", "FileNotFoundError")
            /\ UNCHANGED loader_tables
       ELSE \E order \in ListDirs :
               LET loop == LoadLoop(order, loader_tables)
               IN /\ loader_tables' = loop.tables
                  /\ lresult' =
                        IF loop.failed THEN LRaised("load_tables", FailedToRead)
                        ELSE IF DOMAIN loop.tables = {} THEN LRaised("load_tables", NoCsvFiles)
                        ELSE LReturned("load_tables", loop.tables, {})
    /\ UNCHANGED data_dir
    /\ UNCHANGED modelVars
    /\ UNCHANGED analyzerVars

CallSummary ==
    /\ lresult' = summary
    /\ UNCHANGED <<data_dir, loader_tables>>
    /\ UNCHANGED modelVars
    /\ UNCHANGED analyzerVars

CallValidateSchema ==
    /\ lresult' = validate_schema
    /\ UNCHANGED <<data_dir, loader_tables>>
    /\ UNCHANGED modelVars
    /\ UNCHANGED analyzerVars

\* A new ChinookLoader on a directory that may not exist.
InitLoader ==
    /\ data_dir \in {[exists |-> FALSE, files |-> <<>>], [exists |-> TRUE, files |-> <<>>]}
    /\ loader_tables = <<>>
    /\ lresult = LNoResult
    /\ tables = <<>>
    /\ result = NoResult
    /\ edits = 0
    /\ called = FALSE
    /\ InitAnalyzerIdle

NextLoader ==
    \/ MakeDir
    \/ \E f \in FileNames : \E c \in Contents : PutFile(f, c)
    \/ \E f \in FileNames : RemoveFile(f)
    \/ LoadTables
    \/ CallSummary
    \/ CallValidateSchema

SpecLoader == InitLoader /\ [][NextLoader]_vars

-----------------------------------------------------------------------------
(* Properties of ChinookModel, checked under SpecModel.                    *)

Loaded(t) == t \in DOMAIN tables

\* No two rows of table t hold the same value in column key.
KeyUnique(t, key) ==
    \A i, j \in 1..Len(tables[t].rows) :
        i # j => tables[t].rows[i][key] # tables[t].rows[j][key]

JoinKeysUnique ==
    /\ KeyUnique("invoice", "InvoiceId")
    /\ KeyUnique("customer", "CustomerId")
    /\ KeyUnique("track", "TrackId")
    /\ KeyUnique("album", "AlbumId")
    /\ KeyUnique("artist", "ArtistId")
    /\ KeyUnique("genre", "GenreId")
    /\ KeyUnique("mediatype", "MediaTypeId")

AllSalesTablesLoaded == \A t \in Range(SalesRequired) : Loaded(t)

\* C1: with all eight required tables loaded and every joined-side key
\* unique, sales_line_items() returns exactly as many rows as invoiceline
\* holds, one per invoice line and in the same order, also for lines whose
\* foreign key matches no row.
C1_RowCountPreserved ==
    (result.op = "sales_line_items" /\ AllSalesTablesLoaded /\ JoinKeysUnique)
        => /\ result.status = "ok"
           /\ Len(result.df.rows) = Len(tables["invoiceline"].rows)
           /\ \A i \in 1..Len(result.df.rows) :
                result.df.rows[i]["InvoiceLineId"] = tables["invoiceline"].rows[i]["InvoiceLineId"]

\* A call that returned with unique keys and an invoice line whose InvoiceId
\* matches no invoice (its customer columns are null-filled).
C1_Witness ==
    /\ result.op = "sales_line_items"
    /\ result.status = "ok"
    /\ JoinKeysUnique
    /\ Len(tables["invoiceline"].rows) >= 2
    /\ \E i \in 1..Len(tables["invoiceline"].rows) :
          /\ \A j \in 1..Len(tables["invoice"].rows) :
                tables["invoice"].rows[j]["InvoiceId"] # tables["invoiceline"].rows[i]["InvoiceId"]
          /\ result.df.rows[i]["CustomerId"] = Null

\* C2: sales_line_items() fails exactly when a required table is not
\* loaded; the error then names every absent required table and no frame is
\* returned.
C2_EveryMissingTableNamed ==
    result.op = "sales_line_items"
        => LET absent == {t \in Range(SalesRequired) : ~Loaded(t)}
           IN IF absent = {} THEN result.status = "ok"
              ELSE /\ result.status = "KeyError"
                   /\ Range(result.missing) = absent
                   /\ Len(result.missing) = Cardinality(absent)
                   /\ result.df = NoFrame

\* A failed call with two required tables absent, both named.
C2_Witness ==
    /\ result.op = "sales_line_items"
    /\ result.status = "KeyError"
    /\ Len(result.missing) = 2
    /\ result.missing[1] # result.missing[2]

\* C3: customers_dim() requires only the customer table: it fails exactly
\* when customer is absent, and without the employee table it returns the
\* customer rows with no representative column.
C3_EmployeeOptional ==
    result.op = "customers_dim"
        => /\ (result.status = "ok") <=> Loaded("customer")
           /\ (Loaded("customer") /\ ~Loaded("employee"))
                => /\ result.df.cols = tables["customer"].cols
                   /\ Len(result.df.rows) = Len(tables["customer"].rows)

-----------------------------------------------------------------------------
(* Properties of rfm_analysis(), checked under SpecRfm.                    *)

RfmReturned == aresult.op = "rfm_analysis" /\ aresult.status = "ok"

RfmRowIds == 1..Len(aresult.rows)

\* C4: in every result of rfm_analysis() each of R_Score, F_Score and
\* M_Score lies in 1..5 and RFM_Score is their sum, hence in 3..15.
C4_ScoreRanges ==
    RfmReturned =>
        \A i \in RfmRowIds :
            LET row == aresult.rows[i]
            IN /\ row.R_Score \in 1..5
               /\ row.F_Score \in 1..5
               /\ row.M_Score \in 1..5
               /\ row.RFM_Score = row.R_Score + row.F_Score + row.M_Score
               /\ row.RFM_Score \in 3..15

\* A result in which Frequency got fewer than five bins (its top score is
\* below 5) while Monetary reaches score 5.
C4_Witness ==
    /\ RfmReturned
    /\ Len(aresult.rows) >= 2
    /\ \A i \in RfmRowIds : aresult.rows[i].F_Score < 5
    /\ \E i \in RfmRowIds : aresult.rows[i].F_Score > 1
    /\ \E i \in RfmRowIds : aresult.rows[i].M_Score = 5

\* C5: rfm_analysis() never fails on a sales table with at least one
\* customer: it returns one scored row per customer.
C5_NeverFails ==
    (aresult.op = "rfm_analysis" /\ GroupKeys(sales_df, "CustomerId") # <<>>)
        => /\ aresult.status = "ok"
           /\ Len(aresult.rows) = Len(GroupKeys(sales_df, "CustomerId"))

SameMetrics(a, b) ==
    /\ a.Recency = b.Recency
    /\ a.Frequency = b.Frequency
    /\ a.Monetary = b.Monetary

\* C6: two customers of a result with identical Recency, Frequency and
\* Monetary have identical R_Score, F_Score, M_Score and RFM_Score.
C6_EqualMetricsEqualScores ==
    RfmReturned =>
        \A i, j \in RfmRowIds :
            SameMetrics(aresult.rows[i], aresult.rows[j])
                => /\ aresult.rows[i].R_Score = aresult.rows[j].R_Score
                   /\ aresult.rows[i].F_Score = aresult.rows[j].F_Score
                   /\ aresult.rows[i].M_Score = aresult.rows[j].M_Score
                   /\ aresult.rows[i].RFM_Score = aresult.rows[j].RFM_Score

\* A result with two different customers of identical metrics.
C6_Witness ==
    /\ RfmReturned
    /\ \E i, j \in RfmRowIds :
          /\ i # j
          /\ SameMetrics(aresult.rows[i], aresult.rows[j])

\* R_Score is inverted, F_Score and M_Score are direct.
ScoresMonotone ==
    \A i, j \in RfmRowIds :
        LET a == aresult.rows[i]
            b == aresult.rows[j]
        IN /\ a.Recency < b.Recency => a.R_Score >= b.R_Score
           /\ a.Frequency > b.Frequency => a.F_Score >= b.F_Score
           /\ a.Monetary > b.Monetary => a.M_Score >= b.M_Score

MostRecent(i) == \A j \in RfmRowIds : aresult.rows[i].Recency <= aresult.rows[j].Recency

LeastRecent(i) == \A j \in RfmRowIds : aresult.rows[i].Recency >= aresult.rows[j].Recency

\* The number of Recency bins of the result: distinct quantile edges less one.
RecencyBins ==
    Cardinality(Range(ScaledEdges(Ascending(Field(aresult.rows, "Recency")), 5))) - 1

\* C7, as stated: the scores are monotone and the customers with the
\* smallest Recency have R_Score = 5.
C7_MostRecentScoreFive ==
    (RfmReturned /\ aresult.rows # <<>>) =>
        /\ ScoresMonotone
        /\ \A i \in RfmRowIds : MostRecent(i) => aresult.rows[i].R_Score = 5

\* C7, amended: the scores are monotone; the customers with the smallest
\* Recency have the highest R_Score of the result, which is the number of
\* Recency bins (5 only when the quantiles give five bins), and those with
\* the largest Recency have R_Score = 1.
C7_MostRecentScoreTop ==
    (RfmReturned /\ aresult.rows # <<>>) =>
        /\ ScoresMonotone
        /\ \A i \in RfmRowIds :
              /\ MostRecent(i) =>
                    /\ aresult.rows[i].R_Score = RecencyBins
                    /\ \A j \in RfmRowIds : aresult.rows[j].R_Score <= aresult.rows[i].R_Score
              /\ LeastRecent(i) => aresult.rows[i].R_Score = 1

\* A result whose most recent customers score 3: Recency has three bins.
C7_Witness ==
    /\ RfmReturned
    /\ aresult.rows # <<>>
    /\ RecencyBins = 3
    /\ \E i \in RfmRowIds : MostRecent(i) /\ aresult.rows[i].R_Score = 3
    /\ \E i, j \in RfmRowIds : aresult.rows[i].Frequency > aresult.rows[j].Frequency

\* C8: the rows of a result are in non-increasing RFM_Score order, and the
\* scenario of customers A = 1, B = 2, C = 3 returns B, A, C with strictly
\* decreasing RFM_Score.
C8_SortedAndScenario ==
    /\ RfmReturned =>
          \A i, j \in RfmRowIds : i < j => aresult.rows[i].RFM_Score >= aresult.rows[j].RFM_Score
    /\ (aresult.op = "rfm_analysis" /\ sales_df = ScenarioFrame) =>
          /\ aresult.status = "ok"
          /\ Field(aresult.rows, "CustomerId") = <<2, 1, 3>>
          /\ aresult.rows[1].RFM_Score > aresult.rows[2].RFM_Score
          /\ aresult.rows[2].RFM_Score > aresult.rows[3].RFM_Score

\* The scenario's result: B scores 13, A scores 7, C scores 3.
C8_Witness ==
    /\ RfmReturned
    /\ sales_df = ScenarioFrame
    /\ Field(aresult.rows, "RFM_Score") = <<13, 7, 3>>
    /\ Field(aresult.rows, "Recency") = <<1, 10, 100>>
    /\ Field(aresult.rows, "Frequency") = <<5, 1, 1>>
    /\ Field(aresult.rows, "Monetary") = <<500, 100, 50>>

-----------------------------------------------------------------------------
(* Properties of the aggregations, checked under SpecAgg.                  *)

\* C9: the Revenue of the rows revenue_by_month() returns adds up to the
\* LineTotal of the whole sales table, also when some InvoiceDate is null;
\* the rows are in ascending month order and each month is one of the data.
C9_RevenueConserved ==
    aresult.op = "revenue_by_month" =>
        /\ aresult.status = "ok"
        /\ SumSeq(Field(aresult.rows, "Revenue")) = SeriesSum(Column(sales_df, "LineTotal"))
        /\ \A i, j \in 1..Len(aresult.rows) : i < j => aresult.rows[i]["Month"] < aresult.rows[j]["Month"]
        /\ \A i \in 1..Len(aresult.rows) :
              \E k \in 1..Len(sales_df.rows) :
                 /\ sales_df.rows[k]["InvoiceDate"] # Null
                 /\ MonthOfDay(sales_df.rows[k]["InvoiceDate"]) = aresult.rows[i]["Month"]

TopReturned == aresult.op = "top_countries_by_revenue" /\ aresult.status = "ok"

\* The countries of the sales table, and the LineTotal sold in one.
CountriesSold == {sales_df.rows[k]["Country"] : k \in 1..Len(sales_df.rows)} \ {Null}

SoldIn(k) ==
    SumSeq(NonNull(Column([cols |-> sales_df.cols,
                           rows |-> SelectSeq(sales_df.rows, LAMBDA r : r["Country"] = k)],
                          "LineTotal")))

\* What C10 says of a returned ranking, but for its length: each row is a
\* country with its summed LineTotal, no country appears twice, Revenue never
\* increases down the rows, and no omitted country sold more than a returned one.
TopRowsRanked ==
    /\ \A i \in 1..Len(aresult.rows) :
          /\ aresult.rows[i]["Country"] \in CountriesSold
          /\ aresult.rows[i]["Revenue"] = SoldIn(aresult.rows[i]["Country"])
    /\ \A i, j \in 1..Len(aresult.rows) :
          i < j => /\ aresult.rows[i]["Revenue"] >= aresult.rows[j]["Revenue"]
                   /\ aresult.rows[i]["Country"] # aresult.rows[j]["Country"]
    /\ \A k \in CountriesSold \ Range(Field(aresult.rows, "Country")) :
          \A i \in 1..Len(aresult.rows) : SoldIn(k) <= aresult.rows[i]["Revenue"]

\* C10, as stated: for every integer n at most n rows are returned.
C10_AtMostN ==
    aresult.op = "top_countries_by_revenue" =>
        IF ~HasColumn("Country") THEN aresult.status = "KeyError"
        ELSE /\ aresult.status = "ok"
             /\ Len(aresult.rows) <= aresult.arg
             /\ TopRowsRanked

\* C10, amended: at most n rows are returned when n >= 0; a negative n
\* returns the ranking without its last -n rows.
C10_AtMostNonNegativeN ==
    aresult.op = "top_countries_by_revenue" =>
        IF ~HasColumn("Country") THEN aresult.status = "KeyError"
        ELSE /\ aresult.status = "ok"
             /\ aresult.arg >= 0 => Len(aresult.rows) <= aresult.arg
             /\ aresult.arg < 0 =>
                    Len(aresult.rows) =
                        IF Cardinality(CountriesSold) + aresult.arg > 0
                        THEN Cardinality(CountriesSold) + aresult.arg ELSE 0
             /\ TopRowsRanked

\* A top-2 ranking of three countries whose omitted country sold less than
\* the first of the ranking.
C10_Witness ==
    /\ TopReturned
    /\ aresult.arg = 2
    /\ Len(aresult.rows) = 2
    /\ Cardinality(CountriesSold) = 3
    /\ \E k \in CountriesSold \ Range(Field(aresult.rows, "Country")) :
          SoldIn(k) < aresult.rows[1]["Revenue"]

-----------------------------------------------------------------------------
(* Purity of ChinookModel, checked under SpecModel.                        *)

\* What a ChinookModel newly built over the current tables returns from op.
FreshResult(op) ==
    CASE op = "sales_line_items" -> sales_line_items
      [] op = "catalog" -> catalog
      [] op = "customers_dim" -> customers_dim

\* A step in which the caller leaves the tables alone: a call.
ModelCallStep == edits' = edits

\* C14: no call of sales_line_items(), catalog() or customers_dim(), returning
\* or raising, changes a raw table, and after any sequence of calls the
\* latest one returned, or raised, what it does when called first on a new
\* model over the same tables.
C14_MethodsPure ==
    /\ [](result.op # "none" => result = FreshResult(result.op))
    /\ [][ModelCallStep => tables' = tables]_vars

\* sales_line_items() returned its frame after another call on the same
\* tables.
C14_Witness ==
    /\ called
    /\ result.op = "sales_line_items"
    /\ result.status = "ok"
    /\ result.df.rows # <<>>

\* customers_dim() raised after another call on the same tables.
C14_WitnessFailing ==
    /\ called
    /\ result.op = "customers_dim"
    /\ result.status # "ok"

-----------------------------------------------------------------------------
(* Properties of the whole ChinookAnalyzer, checked under SpecFrame.       *)

CatalogMethods == {"top_words_in_track_titles", "duration_stats"}

SalesMethods ==
    {"revenue_by_month", "top_countries_by_revenue", "top_genres_by_revenue",
     "top_artists_by_revenue", "customer_lifetime_value", "rfm_analysis"}

\* The analyzer was constructed, and the caller passed no catalog table.
ConstructedWithoutCatalog == phase = "ready" /\ caller_catalog = None

\* C11: on an analyzer constructed without a catalog table, whatever was
\* called before, top_words_in_track_titles() and duration_stats() raise the
\* missing-catalog error and not the missing-column error of the column check
\* that follows it, and the methods that read only the sales table never raise
\* the missing-catalog error: they return, or fail on the sales table alone.
C11_MissingCatalog ==
    ConstructedWithoutCatalog =>
        /\ aresult.op \in CatalogMethods => aresult.status = CatalogMissing
        /\ aresult.op \in SalesMethods =>
              /\ aresult.status \in {"ok", "KeyError", "ValueError"}
              /\ aresult.op # "rfm_analysis" => aresult.status = "ok"

\* duration_stats() failed for want of a catalog on a non-empty sales table.
C11_Witness ==
    /\ ConstructedWithoutCatalog
    /\ sales_df.rows # <<>>
    /\ aresult.op = "duration_stats"
    /\ aresult.status = CatalogMissing

\* The outcomes of the method named op called with argument n, on the tables
\* the analyzer holds.
OutcomesOf(op, n, stopwords) ==
    CASE op = "revenue_by_month" -> {revenue_by_month}
      [] op = "top_countries_by_revenue" -> top_countries_by_revenue(n)
      [] op = "top_genres_by_revenue" -> top_genres_by_revenue(n)
      [] op = "top_artists_by_revenue" -> top_artists_by_revenue(n)
      [] op = "customer_lifetime_value" -> customer_lifetime_value(n)
      [] op = "rfm_analysis" -> rfm_analysis
      [] op = "top_words_in_track_titles" -> top_words_in_track_titles(n, stopwords)
      [] op = "duration_stats" -> {duration_stats}

\* What the latest call returned is what the same call returns now.
ResultStillCurrent ==
    aresult.op \in SalesMethods \cup CatalogMethods =>
        aresult \in OutcomesOf(aresult.op, aresult.arg,
                        IF "stopwords" \in DOMAIN aresult THEN aresult.stopwords
                        ELSE DefaultStopwords)

\* A step of the analyzer: the construction, or a call of a method.
AnalyzerStep == phase' # "building" /\ edits' = edits

\* C13: once the analyzer is constructed no step, a method call or a change
\* the caller makes to the tables it passed, changes the sales or catalog
\* table the analyzer holds; no step of the analyzer changes the caller's
\* tables; and whatever a method returned it still returns after the
\* caller's changes.
C13_CopiedOnConstruction ==
    /\ [](phase = "ready" => ResultStillCurrent)
    /\ [][/\ phase = "ready" => (sales_df' = sales_df /\ catalog_df' = catalog_df)
          /\ AnalyzerStep => (caller_df' = caller_df /\ caller_catalog' = caller_catalog)]_vars

\* The caller has appended to both tables since the construction, and
\* revenue_by_month() returns the revenue of the rows the analyzer holds.
C13_Witness ==
    /\ phase = "ready"
    /\ Len(caller_df.rows) > Len(sales_df.rows)
    /\ sales_df.rows # <<>>
    /\ caller_catalog # None
    /\ Len(caller_catalog.rows) > Len(catalog_df.rows)
    /\ aresult = revenue_by_month

-----------------------------------------------------------------------------
(* Properties of the text analysis, checked under SpecWords.               *)

WordsReturned == aresult.op = "top_words_in_track_titles" /\ aresult.status = "ok"

\* A title as the counting sees it: every character lower-cased, then only
\* the letters a to z and the whitespace kept.
Cleaned(title) ==
    SelectSeq([i \in 1..Len(title) |-> Lower(title[i])],
              LAMBDA c : c \in Range(LowerAZ) \cup Whitespace)

\* Positions i..j of s hold a word: a maximal run without whitespace.
WordAt(s, i, j) ==
    /\ i <= j
    /\ \A k \in i..j : s[k] \notin Whitespace
    /\ i = 1 \/ s[i - 1] \in Whitespace
    /\ j = Len(s) \/ s[j + 1] \in Whitespace

\* The titles of the analyzer's catalog that are not missing, cleaned.
CleanedTitles ==
    LET names == SelectSeq(Column(catalog_df, "Name"), LAMBDA t : t # NaName)
    IN [i \in 1..Len(names) |-> Cleaned(names[i])]

WordsOf(s) == {SubSeq(s, i, j) : <<i, j>> \in {p \in (1..Len(s)) \X (1..Len(s)) : WordAt(s, p[1], p[2])}}

\* The number of occurrences of word w across all titles.
Occurrences(w) ==
    SumSeq([t \in 1..Len(CleanedTitles) |->
                LET s == CleanedTitles[t]
                IN Cardinality({p \in (1..Len(s)) \X (1..Len(s)) :
                                    WordAt(s, p[1], p[2]) /\ SubSeq(s, p[1], p[2]) = w})])

\* The words the ranking is drawn from.
CountedWords(stopwords) ==
    UNION {WordsOf(CleanedTitles[t]) : t \in 1..Len(CleanedTitles)} \ stopwords

Sun == <<"s", "u", "n">>

\* C12: the rows of top_words_in_track_titles(n, stopwords), n >= 0, are at
\* most n distinct words of the cleaned titles (lower-cased, reduced to a-z
\* and whitespace, split on whitespace), none of them a stopword, each with
\* the number of its occurrences across all titles, in non-increasing order
\* of that number, no omitted word occurring more often than a returned one;
\* the titles "The Sun Rises" and "Sun and Moon" with the default stopwords
\* put (sun, 2) first.
C12_TopWords ==
    WordsReturned =>
        LET rows == aresult.rows
            counted == CountedWords(aresult.stopwords)
        IN /\ aresult.arg >= 0 =>
                Len(rows) = IF aresult.arg < Cardinality(counted) THEN aresult.arg
                            ELSE Cardinality(counted)
           /\ \A i \in 1..Len(rows) :
                 /\ rows[i].Word \in counted
                 /\ rows[i].Word \notin aresult.stopwords
                 /\ rows[i].Frequency = Occurrences(rows[i].Word)
           /\ \A i, j \in 1..Len(rows) :
                 i < j => /\ rows[i].Frequency >= rows[j].Frequency
                          /\ rows[i].Word # rows[j].Word
           /\ \A w \in counted \ Range(Field(rows, "Word")) :
                 \A i \in 1..Len(rows) : Occurrences(w) <= rows[i].Frequency
           /\ (catalog_df = ScenarioCatalog /\ aresult.stopwords = DefaultStopwords
                    /\ aresult.arg >= 1)
                 => rows[1] = [Word |-> Sun, Frequency |-> 2]

\* The scenario's top two words: sun, twice, and one of the words met once.
C12_Witness ==
    /\ WordsReturned
    /\ catalog_df = ScenarioCatalog
    /\ aresult.stopwords = DefaultStopwords
    /\ aresult.arg = 2
    /\ Len(aresult.rows) = 2
    /\ aresult.rows[1] = [Word |-> Sun, Frequency |-> 2]
    /\ aresult.rows[2].Frequency = 1

-----------------------------------------------------------------------------
(* Properties of ChinookLoader, checked under SpecLoader.                  *)

\* A step in which load_tables() is called.
LoadStep == data_dir' = data_dir /\ lresult'.op = "load_tables"

\* The tabular files now in the directory.
CsvFiles == {f \in DOMAIN data_dir.files : IsCsv(f)}

\* C15, as stated: a load_tables() that fails on a file it cannot parse
\* leaves the loader's table dictionary as it was before the call.
C15_FailedLoadKeepsNothing ==
    [][(LoadStep /\ lresult'.status = FailedToRead) => loader_tables' = loader_tables]_vars

\* load_tables() failed on an unparsable file, and the loader holds a table
\* read before that file.
C15_PartialTables ==
    /\ lresult.op = "load_tables"
    /\ lresult.status = FailedToRead
    /\ DOMAIN loader_tables # {}

\* C16, as stated: a load_tables() that returns, returns one table per
\* tabular file now in the directory, under the file's lower-cased base
\* name, and none for a file that is gone; and a load_tables() on a
\* directory without a tabular file fails with the empty-input error.
C16_LoadReflectsDirectory ==
    [][(LoadStep /\ data_dir.exists) =>
          /\ lresult'.status = "ok" =>
                /\ DOMAIN lresult'.tables = {TableNameOf(f) : f \in CsvFiles}
                /\ Cardinality(DOMAIN lresult'.tables) = Cardinality(CsvFiles)
          /\ CsvFiles = {} => lresult'.status = NoCsvFiles]_vars

\* C16, without the count of the tables: two files whose names differ in
\* case only make one table.
C16_NoStaleTables ==
    [][(LoadStep /\ data_dir.exists) =>
          /\ lresult'.status = "ok" => DOMAIN lresult'.tables = {TableNameOf(f) : f \in CsvFiles}
          /\ CsvFiles = {} => lresult'.status = NoCsvFiles]_vars

\* load_tables() returned a table whose file is no longer in the directory.
C16_StaleTable ==
    /\ lresult.op = "load_tables"
    /\ lresult.status = "ok"
    /\ CsvFiles = {}
    /\ DOMAIN lresult.tables # {}

====
